---- MODULE Spec2Model ----
(***************************************************************************)
(* State-machine model of the fastly_tls_subscription resource             *)
(* (fastly/resource_fastly_tls_subscription.go): the Create, Read, Update  *)
(* and Delete handlers, the CustomizeDiff rules, and the part of the       *)
(* remote TLS API and of the Terraform plan/apply cycle they run against.  *)
(*                                                                         *)
(* Not modelled: created_at / updated_at (two formatted timestamps copied  *)
(* into state by Read, lines 328-335) and the d.Set error returns, which   *)
(* cannot fire for values of the schema's types.                           *)
(*                                                                         *)
(* Also modelled: hashcode.String (fastly/hashcode/hashcode.go), on bytes  *)
(* and for both sizes of int. Not modelled: hashcode.Strings, which joins  *)
(* its elements with "-" and prints String of the result in decimal.       *)
(***************************************************************************)
EXTENDS Naturals, Sequences, FiniteSets

VARIABLES d, remote, tlsDomains, last

vars == <<d, remote, tlsDomains, last>>

-----------------------------------------------------------------------------
(* Bounds and universes *)

\* Most authorizations of a subscription, and challenges of an authorization.
MaxAuth == 2
MaxChal == 2
\* Most domains in a ListTLSDomains answer, and activations of one domain.
MaxListed == 2
MaxAct == 2

NoID == ""
\* The ID of the subscription. The stored state holds at most one ID and Create
\* runs only when it holds none, so the API's choice of a fresh ID for every
\* subscription is not told apart from this one.
SubID == "sub-1"
DomainNames == {"a.example.com", "b.example.com"}
RecordNames == <<"_acme-challenge.a.example.com", "_acme-challenge.b.example.com",
                 "_acme-challenge.c.example.com", "_acme-challenge.d.example.com">>
DefaultConfig == "cfg-default"
ActivationConfigs == {"cfg-other", "cfg-renewed"}
CertID == "cert-1"
CA == "lets-encrypt"

Range(s) == {s[i] : i \in 1..Len(s)}

SeqsUpTo(S, n) == UNION {[1..k -> S] : k \in 0..n}

-----------------------------------------------------------------------------
(* Remote payloads *)

\* A challenge of an authorization as GetTLSSubscription returns it.
Challenge(type, rtype, name, values) ==
    [Type |-> type, RecordType |-> rtype, RecordName |-> name, Values |-> values]

\* The challenges the remote may attach to the authorization of record name n.
ChallengePool(n) ==
    { Challenge("managed-dns", "CNAME", n, <<>>),
      Challenge("managed-dns", "CNAME", n, <<"dns-2.fastly-validations.com", "dns-1.fastly-validations.com">>),
      Challenge("managed-http-a", "A", n, <<"151.101.2.132", "151.101.66.132">>) }

\* Sequences of up to n different elements of S.
DistinctSeqsUpTo(S, n) ==
    {s \in SeqsUpTo(S, n) : \A i, j \in 1..Len(s) : s[i] = s[j] => i = j}

\* Authorization lists: authorization i carries up to MaxChal different
\* challenges, all of record name RecordNames[i].
RECURSIVE AuthorizationListsOfLen(_)
AuthorizationListsOfLen(k) ==
    IF k = 0 THEN {<<>>}
    ELSE {Append(p, c) : p \in AuthorizationListsOfLen(k - 1),
                         c \in DistinctSeqsUpTo(ChallengePool(RecordNames[k]), MaxChal)}

AuthorizationLists == UNION {AuthorizationListsOfLen(k) : k \in 0..MaxAuth}

\* One well-formed authorization: a DNS challenge with a value, an HTTP one.
GoodAuthorizations ==
    << << Challenge("managed-dns", "CNAME", RecordNames[1], <<"dns-1.fastly-validations.com">>),
          Challenge("managed-http-a", "A", RecordNames[1], <<"151.101.2.132", "151.101.66.132">>) >> >>

\* A TLS domain of a ListTLSDomains answer: Activations is nil (omitted) or a list
\* of the configurations of its activations, in the order the API sorted them.
TLSDomain(isNil, acts) == [Nil |-> isNil, Activations |-> acts]

TLSDomainPool ==
    {TLSDomain(TRUE, <<>>)} \cup {TLSDomain(FALSE, a) : a \in SeqsUpTo(ActivationConfigs, MaxAct)}

TLSDomainLists == SeqsUpTo(TLSDomainPool, MaxListed)

NoSubscription ==
    [exists |-> FALSE, ID |-> NoID, CertificateAuthority |-> CA, Domains |-> {},
     CommonName |-> "", Configuration |-> "", State |-> "", Certificates |-> <<>>,
     Authorizations |-> <<>>]

-----------------------------------------------------------------------------
(* Local resource data *)

\* The state of a resource that holds only an ID (no resource: the ID is empty).
EmptyState(id) ==
    [id |-> id, certificate_authority |-> "", certificate_id |-> "", common_name |-> "",
     configuration_id |-> "", domains |-> {}, force_destroy |-> FALSE,
     force_update |-> FALSE, managed_dns_challenge |-> {},
     managed_dns_challenges |-> {}, managed_http_challenges |-> {}, state |-> "",
     tainted |-> FALSE]

\* What a handler returns: the resource data it leaves, its diagnostics (their
\* severities, in order), the remote calls it issued, and whether it panicked.
Result(rd, diags, calls) == [d |-> rd, diags |-> diags, calls |-> calls, panic |-> FALSE]

Panic(rd, calls) == [d |-> rd, diags |-> <<>>, calls |-> calls, panic |-> TRUE]

Fatal(r) == \E i \in 1..Len(r.diags) : r.diags[i] = "error"

\* A remote call a handler issued, with its outcome.
Call(api, outcome) == [api |-> api, outcome |-> outcome]

Called(r, api) == \E i \in 1..Len(r.calls) : r.calls[i].api = api

-----------------------------------------------------------------------------
(* Read: resourceFastlyTLSSubscriptionRead *)

\* Mutant: the last value of the challenge is captured, not the first.
DNSChallengeLastValue(c) ==
    [record_type |-> c.RecordType, record_name |-> c.RecordName,
     record_value |-> c.Values[Len(c.Values)]]

DNSChallenge(c) ==
    [record_type |-> c.RecordType, record_name |-> c.RecordName, record_value |-> c.Values[1]]

HTTPChallenge(c) ==
    [record_type |-> c.RecordType, record_name |-> c.RecordName, record_values |-> c.Values]

\* The loop over subscription.Authorizations and their challenges: every
\* "managed-dns" challenge is appended to dns with its first value (none: the
\* read fails), every other challenge to http with all its values.
RECURSIVE ClassifyChallenges(_, _, _, _, _)
ClassifyChallenges(auths, i, j, dns, http) ==
    IF i > Len(auths) THEN [err |-> FALSE, dns |-> dns, http |-> http]
    ELSE IF j > Len(auths[i]) THEN ClassifyChallenges(auths, i + 1, 1, dns, http)
    ELSE LET challenge == auths[i][j] IN
         IF challenge.Type = "managed-dns"
         THEN IF Len(challenge.Values) < 1
              THEN [err |-> TRUE, dns |-> dns, http |-> http]
              ELSE ClassifyChallenges(auths, i, j + 1, Append(dns, DNSChallenge(challenge)), http)
         ELSE ClassifyChallenges(auths, i, j + 1, dns, Append(http, HTTPChallenge(challenge)))

\* The legacy block: the last "managed-dns" challenge of the first authorization,
\* as a map (here a set holding no or one record).
RECURSIVE LegacyChallenge(_, _, _)
LegacyChallenge(challenges, j, old) ==
    IF j > Len(challenges) THEN [err |-> FALSE, map |-> old]
    ELSE IF challenges[j].Type = "managed-dns"
         THEN IF Len(challenges[j].Values) < 1
              THEN [err |-> TRUE, map |-> old]
              ELSE LegacyChallenge(challenges, j + 1, {DNSChallenge(challenges[j])})
         ELSE LegacyChallenge(challenges, j + 1, old)

\* Mutant: configuration_id is not set from the subscription before the loop, so
\* it stays empty when no activation is found.
RECURSIVE ResolveConfigurationNoDefault(_, _, _)
ResolveConfigurationNoDefault(listed, i, current) ==
    IF i > Len(listed) THEN ""
    ELSE IF listed[i].Nil THEN ""
    ELSE IF Len(listed[i].Activations) > 0 THEN listed[i].Activations[1]
    ELSE ResolveConfigurationNoDefault(listed, i + 1, current)

\* The loop over the listed TLS domains: stop at the first domain whose
\* Activations is nil; take the first activation of the first domain that has one.
RECURSIVE ResolveConfiguration(_, _, _)
ResolveConfiguration(listed, i, current) ==
    IF i > Len(listed) THEN current
    ELSE IF listed[i].Nil THEN current
    ELSE IF Len(listed[i].Activations) > 0 THEN listed[i].Activations[1]
    ELSE ResolveConfiguration(listed, i + 1, current)

\* d.Set of a list of challenge maps into a TypeSet attribute; record_values is
\* itself a TypeSet of strings.
AsDNSSet(dns) == Range(dns)

AsHTTPSet(http) ==
    {[record_type |-> h.record_type, record_name |-> h.record_name,
      record_values |-> Range(h.record_values)] : h \in Range(http)}

\* Mutant: not-found is not told apart from the other failures of
\* GetTLSSubscription.
resourceFastlyTLSSubscriptionReadNotFoundFatal(rd, get, sub, list, listed) ==
    IF get # "ok"
    THEN Result(rd, <<"error">>, <<Call("GetTLSSubscription", get)>>)
    ELSE Result([rd EXCEPT !.domains = sub.Domains, !.common_name = sub.CommonName,
                           !.configuration_id = sub.Configuration, !.state = sub.State],
                <<>>, <<Call("GetTLSSubscription", "ok"), Call("ListTLSDomains", list)>>)

\* The handler on resource data rd, given the outcome of GetTLSSubscription
\* (get: "ok" with subscription sub, "notfound" or "error") and of ListTLSDomains
\* (list: "ok" with the domains listed, or "error", whose error is dropped).
resourceFastlyTLSSubscriptionRead(rd, get, sub, list, listed) ==
    IF get = "notfound"
    THEN Result([rd EXCEPT !.id = NoID], <<"warning">>, <<Call("GetTLSSubscription", get)>>)
    ELSE IF get = "error"
    THEN Result(rd, <<"error">>, <<Call("GetTLSSubscription", get)>>)
    ELSE
    LET certificateID == IF Len(sub.Certificates) > 0 THEN sub.Certificates[1] ELSE ""
        managed == ClassifyChallenges(sub.Authorizations, 1, 1, <<>>, <<>>)
    IN
    IF managed.err THEN Result(rd, <<"error">>, <<Call("GetTLSSubscription", "ok")>>)
    ELSE IF Len(sub.Authorizations) = 0 THEN Panic(rd, <<Call("GetTLSSubscription", "ok")>>)
    ELSE
    LET legacy == LegacyChallenge(sub.Authorizations[1], 1, {}) IN
    IF legacy.err THEN Result(rd, <<"error">>, <<Call("GetTLSSubscription", "ok")>>)
    ELSE
    LET domains == IF list = "ok" THEN listed ELSE <<>>
        configurationID == ResolveConfiguration(domains, 1, sub.Configuration)
    IN
    Result([rd EXCEPT !.managed_dns_challenge = legacy.map,
                      !.domains = sub.Domains,
                      !.common_name = sub.CommonName,
                      !.certificate_id = certificateID,
                      !.certificate_authority = sub.CertificateAuthority,
                      !.configuration_id = configurationID,
                      !.state = sub.State,
                      !.managed_dns_challenges = AsDNSSet(managed.dns),
                      !.managed_http_challenges = AsHTTPSet(managed.http)],
           <<>>, <<Call("GetTLSSubscription", "ok"), Call("ListTLSDomains", list)>>)

-----------------------------------------------------------------------------
(* The remote API, as the handlers use it *)

Subscription(id, domains, cn, cfg, state, certs, auths) ==
    [exists |-> TRUE, ID |-> id, CertificateAuthority |-> CA, Domains |-> domains,
     CommonName |-> cn, Configuration |-> cfg, State |-> state, Certificates |-> certs,
     Authorizations |-> auths]

HasActiveDomains(listed) == \E i \in 1..Len(listed) : Len(listed[i].Activations) > 0

\* CreateTLSSubscription: a new pending subscription without certificate. The API
\* picks the common name (dflt, one of the domains) and the configuration when the
\* input leaves them out.
CreateTLSSubscription(input, id, dflt, auths) ==
    Subscription(id, input.Domains,
                 IF input.CommonName = "" THEN dflt ELSE input.CommonName,
                 IF input.Configuration = "" THEN DefaultConfig ELSE input.Configuration,
                 "pending", <<>>, auths)

\* The API refuses a second subscription for domains that already have one.
CreateOutcomes(sub) == IF sub.exists THEN {"error"} ELSE {"ok", "error"}

\* UpdateTLSSubscription: domains, common name and configuration are replaced.
UpdateTLSSubscription(sub, input) ==
    [sub EXCEPT !.Domains = input.Domains, !.CommonName = input.CommonName,
                !.Configuration = input.Configuration]

\* The API updates a subscription only in state issued or pending, and one with
\* active domains only when forced.
UpdateOutcomes(sub, listed, input) ==
    IF /\ sub.exists /\ sub.ID = input.ID
       /\ sub.State \in {"issued", "pending"}
       /\ input.CommonName \in input.Domains
       /\ (input.Force \/ ~HasActiveDomains(listed))
    THEN {"ok", "error"} ELSE {"error"}

\* The API deletes a subscription with active domains only when forced.
DeleteOutcomes(sub, listed, input) ==
    IF sub.exists /\ sub.ID = input.ID /\ (input.Force \/ ~HasActiveDomains(listed))
    THEN {"ok", "error"} ELSE {"error"}

\* GetTLSSubscription of id: the subscription, not-found, or another failure.
GetOutcomes(sub, id) ==
    IF sub.exists /\ sub.ID = id THEN {"ok", "error"} ELSE {"notfound", "error"}

\* The same right after a successful create or update of sub: the subscription
\* may have been deleted remotely in between.
GetOutcomesAfterWrite == {"ok", "error", "notfound"}

ListOutcomes == {"ok", "error"}

-----------------------------------------------------------------------------
(* Create, Update, Delete *)

\* What d.Get returns to Create and Update for the attributes the configuration
\* sets: an Optional+Computed attribute left out keeps the value of the state.
PlannedValues(rd, cfg) ==
    [domains |-> cfg.domains,
     common_name |-> IF cfg.common_name = "" THEN rd.common_name ELSE cfg.common_name,
     configuration_id |-> IF cfg.configuration_id = "" THEN rd.configuration_id
                          ELSE cfg.configuration_id,
     force_update |-> cfg.force_update,
     force_destroy |-> cfg.force_destroy]

HasChange(rd, planned, key) == planned[key] # rd[key]

HasChanges(rd, planned, keys) == \E key \in keys : HasChange(rd, planned, key)

contains(list, s) == s \in list

Prepend(call, r, rem) ==
    [d |-> r.d, diags |-> r.diags, calls |-> <<call>> \o r.calls, panic |-> r.panic,
     remote |-> rem]

Unchanged(r, rem) ==
    [d |-> r.d, diags |-> r.diags, calls |-> r.calls, panic |-> r.panic, remote |-> rem]

\* Mutant: common_name is checked against the domains only after the remote create.
resourceFastlyTLSSubscriptionCreateChecksLate(rd, planned, sub, create, created, get, list, listed) ==
    IF create = "error"
    THEN Unchanged(Result(rd, <<"error">>, <<Call("CreateTLSSubscription", "error")>>), sub)
    ELSE IF planned.common_name # "" /\ ~contains(planned.domains, planned.common_name)
    THEN Unchanged(Result(rd, <<"error">>, <<Call("CreateTLSSubscription", "ok")>>), created)
    ELSE Prepend(Call("CreateTLSSubscription", "ok"),
                 resourceFastlyTLSSubscriptionRead([rd EXCEPT !.id = created.ID],
                                                   get, created, list, listed),
                 IF get = "notfound" THEN NoSubscription ELSE created)

\* Create on resource data rd with planned values, against the remote sub. The
\* API's part: the outcome create and the subscription created, then the
\* outcomes of the read that follows.
resourceFastlyTLSSubscriptionCreate(rd, planned, sub, create, created, get, list, listed) ==
    IF planned.common_name # "" /\ ~contains(planned.domains, planned.common_name)
    THEN Unchanged(Result(rd, <<"error">>, <<>>), sub)
    ELSE IF create = "error"
    THEN Unchanged(Result(rd, <<"error">>, <<Call("CreateTLSSubscription", "error")>>), sub)
    ELSE Prepend(Call("CreateTLSSubscription", "ok"),
                 resourceFastlyTLSSubscriptionRead([rd EXCEPT !.id = created.ID],
                                                   get, created, list, listed),
                 IF get = "notfound" THEN NoSubscription ELSE created)

CreateInput(planned) ==
    [CertificateAuthority |-> CA, Configuration |-> planned.configuration_id,
     Domains |-> planned.domains, CommonName |-> planned.common_name]

UpdateInput(rd, planned) ==
    [ID |-> rd.id, Force |-> planned.force_update, CommonName |-> planned.common_name,
     Domains |-> planned.domains, Configuration |-> planned.configuration_id]

\* Mutant: the update is sent whatever has changed.
resourceFastlyTLSSubscriptionUpdateAlways(rd, planned, sub, update, get, list, listed) ==
    IF update = "error"
    THEN Unchanged(Result(rd, <<"error">>, <<Call("UpdateTLSSubscription", "error")>>), sub)
    ELSE LET updated == UpdateTLSSubscription(sub, UpdateInput(rd, planned)) IN
         Prepend(Call("UpdateTLSSubscription", "ok"),
                 resourceFastlyTLSSubscriptionRead(rd, get, updated, list, listed),
                 IF get = "notfound" THEN NoSubscription ELSE updated)

\* Mutant: a failed update clears the ID before it returns the error.
resourceFastlyTLSSubscriptionUpdateClearsID(rd, planned, sub, update, get, list, listed) ==
    IF HasChanges(rd, planned, {"domains", "common_name"})
    THEN IF update = "error"
         THEN Unchanged(Result([rd EXCEPT !.id = NoID], <<"error">>,
                               <<Call("UpdateTLSSubscription", "error")>>), sub)
         ELSE LET updated == UpdateTLSSubscription(sub, UpdateInput(rd, planned)) IN
              Prepend(Call("UpdateTLSSubscription", "ok"),
                      resourceFastlyTLSSubscriptionRead(rd, get, updated, list, listed),
                      IF get = "notfound" THEN NoSubscription ELSE updated)
    ELSE Unchanged(resourceFastlyTLSSubscriptionRead(rd, get, sub, list, listed), sub)

\* Update on resource data rd (the state before) with planned values.
resourceFastlyTLSSubscriptionUpdate(rd, planned, sub, update, get, list, listed) ==
    IF HasChanges(rd, planned, {"domains", "common_name"})
    THEN IF update = "error"
         THEN Unchanged(Result(rd, <<"error">>, <<Call("UpdateTLSSubscription", "error")>>), sub)
         ELSE LET updated == UpdateTLSSubscription(sub, UpdateInput(rd, planned)) IN
              Prepend(Call("UpdateTLSSubscription", "ok"),
                      resourceFastlyTLSSubscriptionRead(rd, get, updated, list, listed),
                      IF get = "notfound" THEN NoSubscription ELSE updated)
    ELSE Unchanged(resourceFastlyTLSSubscriptionRead(rd, get, sub, list, listed), sub)

DeleteInput(rd) == [ID |-> rd.id, Force |-> rd.force_destroy]

\* Mutant: the error of DeleteTLSSubscription is dropped.
resourceFastlyTLSSubscriptionDeleteDropsError(rd, sub, delete) ==
    Unchanged(Result(rd, <<>>, <<Call("DeleteTLSSubscription", delete)>>),
              IF delete = "ok" THEN NoSubscription ELSE sub)

resourceFastlyTLSSubscriptionDelete(rd, sub, delete) ==
    Unchanged(Result(rd, IF delete = "error" THEN <<"error">> ELSE <<>>,
                     <<Call("DeleteTLSSubscription", delete)>>),
              IF delete = "ok" THEN NoSubscription ELSE sub)

-----------------------------------------------------------------------------
(* CustomizeDiff *)

\* Mutant: renewing counts as a state that can be updated.
resourceFastlyTLSSubscriptionIsStateImmutableButRenewing(rd) ==
    rd.state # "issued" /\ rd.state # "pending" /\ rd.state # "renewing"

resourceFastlyTLSSubscriptionIsStateImmutable(rd) ==
    rd.state # "issued" /\ rd.state # "pending"

\* customdiff.ForceNewIf(key, f): the key requires a new resource when it has a
\* change and f holds.
ForceNewIf(rd, planned, key) ==
    HasChange(rd, planned, key) /\ resourceFastlyTLSSubscriptionIsStateImmutable(rd)

\* Mutant: the rule for common_name is missing.
RequiresNewWithoutCommonName(rd, planned) ==
    {key \in {"configuration_id", "domains"} : ForceNewIf(rd, planned, key)}

\* The keys the three ForceNewIf rules of CustomizeDiff mark as requiring a new resource.
RequiresNew(rd, planned) ==
    {key \in {"configuration_id", "domains", "common_name"} : ForceNewIf(rd, planned, key)}

\* resourceFastlyTLSSubscriptionSetNewComputed: the attributes marked as computed.
resourceFastlyTLSSubscriptionSetNewComputed(rd, planned) ==
    IF HasChange(rd, planned, "domains")
    THEN {"managed_dns_challenges", "managed_http_challenges"} ELSE {}

ConfigKeys == {"domains", "common_name", "configuration_id", "force_update", "force_destroy"}

-----------------------------------------------------------------------------
(* CustomizeDiff: the two ValidateValue rules *)

\* The values a configuration may give a domain or the common name, written as
\* Go string literals, and Runes: the code points of each. Among them lowercase
\* values (ASCII and not), ASCII capitals in the first and in the last place,
\* a capital outside ASCII that has a lowercase form (U+00C9), a titlecase
\* letter (U+01C5: of category Lt, not Lu), and a capital that has no lowercase
\* form (U+1D400, of category Lu).
LowercaseValues == {"a.io", "b-1.io", "\\u00e9.io"}

PlanValues ==
    LowercaseValues \cup {"A.io", "a.IO", "\\u00c9.io", "\\u01c5.io", "\\U0001d400.io"}

Runes(s) ==
    CASE s = ""               -> <<>>
      [] s = "a.io"           -> <<97, 46, 105, 111>>
      [] s = "b-1.io"         -> <<98, 45, 49, 46, 105, 111>>
      [] s = "\\u00e9.io"     -> <<233, 46, 105, 111>>
      [] s = "A.io"           -> <<65, 46, 105, 111>>
      [] s = "a.IO"           -> <<97, 46, 73, 79>>
      [] s = "\\u00c9.io"     -> <<201, 46, 105, 111>>
      [] s = "\\u01c5.io"     -> <<453, 46, 105, 111>>
      [] s = "\\U0001d400.io" -> <<119808, 46, 105, 111>>
      [] s = "a.example.com"  -> <<97, 46, 101, 120, 97, 109, 112, 108, 101, 46, 99, 111, 109>>
      [] s = "b.example.com"  -> <<98, 46, 101, 120, 97, 109, 112, 108, 101, 46, 99, 111, 109>>

\* unicode.ToLower on the code points above: 'A'..'Z' and U+00C0..U+00D6 map to
\* the code point 32 higher, U+01C5 to U+01C6, and every other one to itself.
ToLowerRune(r) ==
    IF 65 <= r /\ r <= 90 THEN r + 32
    ELSE IF 192 <= r /\ r <= 214 THEN r + 32
    ELSE IF r = 453 THEN 454
    ELSE r

\* strings.ToLower: every code point of s replaced by its lowercase form.
ToLower(s) == [i \in 1..Len(s) |-> ToLowerRune(s[i])]

\* Mutant: only the first letter of every domain is compared.
resourceFastlyTLSSubscriptionValidateDomainsFirstLetter(v) ==
    \E domain \in v :
        Len(Runes(domain)) > 0 /\ Runes(domain)[1] # ToLowerRune(Runes(domain)[1])

\* resourceFastlyTLSSubscriptionValidateDomains on the set v: TRUE when it
\* returns an error.
resourceFastlyTLSSubscriptionValidateDomains(v) ==
    \E domain \in v : Runes(domain) # ToLower(Runes(domain))

\* resourceFastlyTLSSubscriptionValidateCommonName on the string v.
resourceFastlyTLSSubscriptionValidateCommonName(v) == Runes(v) # ToLower(Runes(v))

\* customdiff.ValidateValue(key, f): f on the planned value of the key.
ValidateValue(planned, key) ==
    IF key = "domains" THEN resourceFastlyTLSSubscriptionValidateDomains(planned.domains)
    ELSE resourceFastlyTLSSubscriptionValidateCommonName(planned.common_name)

\* The diagnostics of customdiff.All(...): every rule runs, none calls the API,
\* and the plan fails when a ValidateValue rule returned an error.
CustomizeDiff(planned) ==
    IF \E key \in {"domains", "common_name"} : ValidateValue(planned, key)
    THEN <<"error">> ELSE <<>>

-----------------------------------------------------------------------------
(* Terraform: plan and apply on the stored state d *)

DomainSets == {{"a.example.com"}, DomainNames}

\* The configurations a user writes; "" is an attribute left out.
Configs ==
    [domains : DomainSets,
     common_name : {""} \cup DomainNames,
     configuration_id : {"", "cfg-other"},
     force_update : BOOLEAN,
     force_destroy : BOOLEAN]

\* The authorizations a subscription is created with: well-formed, or with a DNS
\* challenge that has no value.
LifecycleAuthorizations ==
    { GoodAuthorizations,
      << << Challenge("managed-dns", "CNAME", RecordNames[1], <<>>) >> >> }

\* The answers of ListTLSDomains over the life of a subscription.
LifecycleListings ==
    { <<>>, << TLSDomain(FALSE, <<"cfg-renewed">>) >> }

\* What the operation that has just returned was and did, until the run that
\* made it ends (Return); NoOperation between runs. planned: the values the
\* operation was given (Plan, Create, Update); before and remoteBefore: the
\* stored state and the remote subscription it started from; data: the resource
\* data the handler left; requiresNew: the keys a Plan marked.
NoPlan ==
    [domains |-> {}, common_name |-> "", configuration_id |-> "",
     force_update |-> FALSE, force_destroy |-> FALSE]

Record(op, planned, r) ==
    [op |-> op, planned |-> planned, before |-> d, remoteBefore |-> remote,
     data |-> r.d, diags |-> r.diags, calls |-> r.calls, panic |-> r.panic,
     requiresNew |-> {}]

NoOperation ==
    [op |-> "none", planned |-> NoPlan, before |-> EmptyState(NoID),
     remoteBefore |-> NoSubscription, data |-> EmptyState(NoID), diags |-> <<>>,
     calls |-> <<>>, panic |-> FALSE, requiresNew |-> {}]

\* The state Terraform stores after a handler returned r for planned values: none
\* when the ID is empty; what the handler set, with the two flags of the
\* configuration, when it succeeded; what the handler left when it failed (a
\* failed create is tainted). A provider that panicked returns nothing, and the
\* stored state stays. Terraform also merges the planned values into the state
\* of a failed apply; the handlers are checked on every state and configuration
\* all the same, and that merge is left out.
Stored(op, r, planned) ==
    IF r.panic THEN d
    ELSE IF r.d.id = NoID THEN EmptyState(NoID)
    ELSE IF Fatal(r)
    THEN [r.d EXCEPT !.tainted = (op = "Create") \/ r.d.tainted]
    ELSE [r.d EXCEPT !.force_update = planned.force_update,
                     !.force_destroy = planned.force_destroy]

\* terraform plan for a resource in the state: CustomizeDiff on the stored state
\* and the planned values.
Plan ==
    /\ last = NoOperation
    /\ d.id # NoID
    /\ \E planned \in {PlannedValues(d, cfg) : cfg \in Configs} :
         last' = [Record("Plan", planned, Result(d, <<>>, <<>>))
                    EXCEPT !.requiresNew = RequiresNew(d, planned)]
    /\ UNCHANGED <<d, remote, tlsDomains>>

\* terraform apply of a new resource.
Create ==
    /\ last = NoOperation
    /\ d.id = NoID
    /\ \E cfg \in Configs, create \in CreateOutcomes(remote) :
       \E dflt \in IF create = "ok" THEN cfg.domains ELSE {"a.example.com"},
          auths \in IF create = "ok" THEN LifecycleAuthorizations ELSE {GoodAuthorizations},
          get \in IF create = "ok" THEN GetOutcomesAfterWrite ELSE {"ok"} :
       \E list \in IF create = "ok" /\ get = "ok" THEN ListOutcomes ELSE {"ok"} :
         LET planned == PlannedValues(d, cfg)
             created == CreateTLSSubscription(CreateInput(planned), SubID, dflt, auths)
             r == resourceFastlyTLSSubscriptionCreate(d, planned, remote, create, created,
                                                      get, list, tlsDomains)
         IN
         /\ d' = Stored("Create", r, planned)
         /\ remote' = r.remote
         /\ last' = Record("Create", planned, r)
    /\ UNCHANGED tlsDomains

\* terraform apply of a change planned as an update in place: some attribute
\* differs, the resource is not tainted, and no rule requires a new resource.
Update ==
    /\ last = NoOperation
    /\ d.id # NoID
    /\ ~d.tainted
    /\ \E planned \in {PlannedValues(d, cfg) : cfg \in Configs} :
         /\ HasChanges(d, planned, ConfigKeys)
         /\ RequiresNew(d, planned) = {}
         /\ \E update \in UpdateOutcomes(remote, tlsDomains, UpdateInput(d, planned)) :
            \E get \in IF HasChanges(d, planned, {"domains", "common_name"})
                        THEN (IF update = "ok" THEN GetOutcomesAfterWrite ELSE {"ok"})
                        ELSE GetOutcomes(remote, d.id) :
            \E list \in IF get = "ok" THEN ListOutcomes ELSE {"ok"} :
              LET r == resourceFastlyTLSSubscriptionUpdate(d, planned, remote, update,
                                                           get, list, tlsDomains)
              IN
              /\ d' = Stored("Update", r, planned)
              /\ remote' = r.remote
              /\ last' = Record("Update", planned, r)
    /\ UNCHANGED tlsDomains

\* terraform destroy, or the first half of a replacement (a tainted resource, or
\* a change that requires a new resource): the state is removed when Delete succeeds.
Delete ==
    /\ last = NoOperation
    /\ d.id # NoID
    /\ \E delete \in DeleteOutcomes(remote, tlsDomains, DeleteInput(d)) :
         LET r == resourceFastlyTLSSubscriptionDelete(d, remote, delete) IN
         /\ d' = IF Fatal(r) THEN d ELSE EmptyState(NoID)
         /\ remote' = r.remote
         /\ last' = Record("Delete", NoPlan, r)
    /\ UNCHANGED tlsDomains

\* terraform refresh: the Read handler on the stored state.
Refresh ==
    /\ last = NoOperation
    /\ d.id # NoID
    /\ \E get \in GetOutcomes(remote, d.id) :
       \E list \in IF get = "ok" THEN ListOutcomes ELSE {"ok"} :
         LET r == resourceFastlyTLSSubscriptionRead(d, get, remote, list, tlsDomains) IN
         /\ d' = IF r.panic THEN d ELSE IF r.d.id = NoID THEN EmptyState(NoID) ELSE r.d
         /\ last' = Record("Read", NoPlan, r)
    /\ UNCHANGED <<remote, tlsDomains>>

-----------------------------------------------------------------------------
(* The remote side's own steps *)

\* The run of Terraform that made the last operation ends.
Return ==
    /\ last # NoOperation
    /\ last' = NoOperation
    /\ UNCHANGED <<d, remote, tlsDomains>>

\* The certificate lifecycle: pending, processing, issued, renewing, issued, ...
RemoteAdvance ==
    /\ last = NoOperation
    /\ remote.exists
    /\ \/ remote.State = "pending" /\ remote' = [remote EXCEPT !.State = "processing"]
       \/ /\ remote.State \in {"processing", "renewing"}
          /\ remote' = [remote EXCEPT !.State = "issued", !.Certificates = <<CertID>>]
       \/ remote.State = "issued" /\ remote' = [remote EXCEPT !.State = "renewing"]
    /\ UNCHANGED <<d, tlsDomains, last>>

\* Domains are activated or deactivated: the listing changes.
RemoteActivate ==
    /\ last = NoOperation
    /\ tlsDomains' \in LifecycleListings \ {tlsDomains}
    /\ UNCHANGED <<d, remote, last>>

\* The subscription is deleted outside Terraform.
RemoteDelete ==
    /\ last = NoOperation
    /\ remote.exists
    /\ remote' = NoSubscription
    /\ UNCHANGED <<d, tlsDomains, last>>

Init ==
    /\ d = EmptyState(NoID)
    /\ remote = NoSubscription
    /\ tlsDomains = <<>>
    /\ last = NoOperation

Next ==
    \/ Plan
    \/ Create
    \/ Update
    \/ Delete
    \/ Refresh
    \/ Return
    \/ RemoteAdvance
    \/ RemoteActivate
    \/ RemoteDelete

Spec == Init /\ [][Next]_vars

-----------------------------------------------------------------------------
(* Read on one answer of the API: the resource was imported by ID *)

InitRead ==
    /\ d = EmptyState(SubID)
    /\ last = NoOperation
    /\ \/ /\ remote \in {Subscription(SubID, DomainNames, "a.example.com", DefaultConfig,
                                      "pending", <<>>, a) : a \in AuthorizationLists}
          /\ tlsDomains = <<>>
       \/ /\ remote \in {Subscription(SubID, DomainNames, "a.example.com", DefaultConfig,
                                      "issued", <<CertID>>, GoodAuthorizations)}
          /\ tlsDomains \in TLSDomainLists
       \/ /\ remote = NoSubscription
          /\ tlsDomains = <<>>

NextRead == Refresh \/ Return

SpecRead == InitRead /\ [][NextRead]_vars

-----------------------------------------------------------------------------
(* Plan, then apply: a configuration reaches a handler only through a plan *)

\* Most domains of a configuration.
MaxDomains == 2

\* The configurations planned: domains and common name of PlanValues.
PlanConfigs ==
    [domains : {S \in SUBSET PlanValues : Cardinality(S) \in 1..MaxDomains},
     common_name : {""} \cup PlanValues,
     configuration_id : {""},
     force_update : {FALSE},
     force_destroy : {FALSE}]

\* terraform plan, for a new resource or one in the state: CustomizeDiff on the
\* planned values. A plan that fails leaves nothing to apply.
PlanResourceChange ==
    /\ last = NoOperation
    /\ \E planned \in {PlannedValues(d, cfg) : cfg \in PlanConfigs} :
         last' = [Record("Plan", planned, Result(d, CustomizeDiff(planned), <<>>))
                    EXCEPT !.requiresNew = RequiresNew(d, planned)]
    /\ UNCHANGED <<d, remote, tlsDomains>>

\* terraform apply of the plan of a new resource.
ApplyCreate ==
    /\ last.op = "Plan"
    /\ last.diags = <<>>
    /\ d.id = NoID
    /\ \E create \in CreateOutcomes(remote) :
       \E dflt \in IF create = "ok" THEN last.planned.domains ELSE {"a.io"},
          get \in IF create = "ok" THEN GetOutcomesAfterWrite ELSE {"ok"} :
         LET planned == last.planned
             created == CreateTLSSubscription(CreateInput(planned), SubID, dflt,
                                              GoodAuthorizations)
             r == resourceFastlyTLSSubscriptionCreate(d, planned, remote, create, created,
                                                      get, "ok", tlsDomains)
         IN
         /\ d' = Stored("Create", r, planned)
         /\ remote' = r.remote
         /\ last' = Record("Create", planned, r)
    /\ UNCHANGED tlsDomains

\* terraform apply of a plan that updates in place.
ApplyUpdate ==
    /\ last.op = "Plan"
    /\ last.diags = <<>>
    /\ d.id # NoID
    /\ ~d.tainted
    /\ HasChanges(d, last.planned, ConfigKeys)
    /\ last.requiresNew = {}
    /\ \E update \in UpdateOutcomes(remote, tlsDomains, UpdateInput(d, last.planned)) :
       \E get \in IF HasChanges(d, last.planned, {"domains", "common_name"})
                   THEN (IF update = "ok" THEN GetOutcomesAfterWrite ELSE {"ok"})
                   ELSE GetOutcomes(remote, d.id) :
         LET planned == last.planned
             r == resourceFastlyTLSSubscriptionUpdate(d, planned, remote, update,
                                                      get, "ok", tlsDomains)
         IN
         /\ d' = Stored("Update", r, planned)
         /\ remote' = r.remote
         /\ last' = Record("Update", planned, r)
    /\ UNCHANGED tlsDomains

NextPlan ==
    \/ PlanResourceChange
    \/ ApplyCreate
    \/ ApplyUpdate
    \/ Delete
    \/ Return

SpecPlan == Init /\ [][NextPlan]_vars

-----------------------------------------------------------------------------
(* hashcode.String (fastly/hashcode/hashcode.go) *)

\* A uint32 is written <<hi, lo>>, its two halves of 16 bits: the value is
\* hi * 65536 + lo.
\* Most bytes of a hashed string, and calls of String on one string.
MaxBytes == 3
MaxCalls == 2

\* The strings hashed: the strings of 'a', 'b' and '-' (the delimiter Strings
\* appends), "test", and four strings of four bytes whose checksums are
\* 0x80000000, 0x7fffffff, 0xffffffff and 0.
HashInputs ==
    SeqsUpTo({97, 98, 45}, MaxBytes)
        \cup {<<116, 101, 115, 116>>, <<78, 133, 236, 54>>, <<44, 112, 202, 164>>,
              <<255, 255, 255, 255>>, <<157, 10, 217, 109>>}

\* The size of int in bits: 32 or 64, as the build's target has it.
IntSizes == {32, 64}

\* a XOR b on naturals.
RECURSIVE Xor(_, _)
Xor(a, b) ==
    IF a = 0 THEN b
    ELSE IF b = 0 THEN a
    ELSE 2 * Xor(a \div 2, b \div 2) + (((a % 2) + (b % 2)) % 2)

XorWord(x, y) == <<Xor(x[1], y[1]), Xor(x[2], y[2])>>

\* x >> 1
ShiftRight(x) == <<x[1] \div 2, (x[2] \div 2) + ((x[1] % 2) * 32768)>>

\* crc32.IEEE, the polynomial 0xedb88320.
IEEE == <<60856, 33568>>

AllOnes == <<65535, 65535>>

\* One step of the checksum: the register shifted right by one bit, and the
\* polynomial added when the bit shifted out is 1.
ShiftStep(crc) ==
    IF crc[2] % 2 = 1 THEN XorWord(ShiftRight(crc), IEEE) ELSE ShiftRight(crc)

\* The eight steps of the checksum for one byte. (The register of every step is
\* bound as a value, x, before the next step starts.)
RECURSIVE UpdateBits(_, _)
UpdateBits(crc, k) ==
    IF k = 0 THEN crc
    ELSE CHOOSE r \in {UpdateBits(x, k - 1) : x \in {ShiftStep(crc)}} : TRUE

RECURSIVE UpdateCRC(_, _, _)
UpdateCRC(crc, p, i) ==
    IF i > Len(p) THEN crc
    ELSE CHOOSE r \in {UpdateCRC(x, p, i + 1) :
                         x \in {UpdateBits(XorWord(crc, <<0, p[i]>>), 8)}} : TRUE

\* crc32.ChecksumIEEE of the bytes p.
ChecksumIEEE(p) == XorWord(UpdateCRC(AllOnes, p, 1), AllOnes)

\* A value of type int: its sign and its magnitude (a uint32).
IntValue(neg, mag) == [neg |-> neg, mag |-> mag]

\* 2^32 - u, for a uint32 u that is not 0.
TwosComplement(u) ==
    IF u[2] = 0 THEN <<65536 - u[1], 0>> ELSE <<65535 - u[1], 65536 - u[2]>>

\* int(u) of a uint32 u: the same number where int has 64 bits; where it has 32,
\* the 32 bits of u read as two's complement.
ToInt(u, size) ==
    IF size = 32 /\ u[1] >= 32768 THEN IntValue(TRUE, TwosComplement(u))
    ELSE IntValue(FALSE, u)

MinInt32 == IntValue(TRUE, <<32768, 0>>)

\* -v: of the least int of 32 bits it is that int again.
Negate(v, size) ==
    IF v.mag = <<0, 0>> THEN v
    ELSE IF size = 32 /\ v = MinInt32 THEN v
    ELSE IntValue(~v.neg, v.mag)

\* Mutant: the negated value is returned without the test -v >= 0.
StringNegatesAlways(s, size) ==
    LET v == ToInt(ChecksumIEEE(s), size) IN
    IF ~v.neg THEN v ELSE Negate(v, size)

\* hashcode.String of the bytes s, in a build whose int has size bits.
String(s, size) ==
    LET v == ToInt(ChecksumIEEE(s), size) IN
    IF ~v.neg THEN v
    ELSE IF ~Negate(v, size).neg THEN Negate(v, size)
    ELSE IntValue(FALSE, <<0, 0>>)

\* A program of one build with one string to hash.
InitHash ==
    /\ d = EmptyState(NoID)
    /\ remote = NoSubscription
    /\ tlsDomains = <<>>
    /\ \E s \in HashInputs, size \in IntSizes :
         last = [op |-> "String", s |-> s, size |-> size, results |-> <<>>]

\* One call of String on the string; results: what the calls so far returned.
HashString ==
    /\ Len(last.results) < MaxCalls
    /\ last' = [last EXCEPT !.results = Append(@, String(last.s, last.size))]
    /\ UNCHANGED <<d, remote, tlsDomains>>

NextHash == HashString

SpecHash == InitHash /\ [][NextHash]_vars

-----------------------------------------------------------------------------
(* Properties *)

Returned(op) == last.op = op /\ ~last.panic

Succeeded(op) == Returned(op) /\ last.diags = <<>>

CalledOk(api) == \E i \in 1..Len(last.calls) : last.calls[i] = Call(api, "ok")

\* The handler changed its resource data (the ID or a field); the operation
\* changed the remote subscription.
Wrote == last.data # last.before

Mutated == remote # last.remoteBefore

InvalidCommonName(planned) ==
    planned.common_name # "" /\ planned.common_name \notin planned.domains

\* C1: a Create whose common_name is supplied and is not one of the domains
\* returns a fatal diagnostic, issues no remote call (no CreateTLSSubscription)
\* and leaves the resource ID unset.
C1_CreateRejectsCommonName ==
    (last.op = "Create" /\ InvalidCommonName(last.planned))
        => /\ ~last.panic
           /\ last.diags = <<"error">>
           /\ last.calls = <<>>
           /\ last.data.id = NoID /\ d.id = NoID
           /\ ~Mutated

C1_Witness ==
    /\ last.op = "Create"
    /\ last.planned.common_name = "b.example.com"
    /\ last.planned.domains = {"a.example.com"}
    /\ Fatal(last)

DomainsOrCommonNameDiffer ==
    \/ last.planned.domains # last.before.domains
    \/ last.planned.common_name # last.before.common_name

\* C2: Update issues UpdateTLSSubscription if and only if the planned domains or
\* common_name differ from the stored (last-read) state; when neither differs
\* the only remote calls of Update are those of the read, and the remote
\* subscription is not changed.
C2_UpdateCallsOnlyOnChange ==
    last.op = "Update"
        => /\ Called(last, "UpdateTLSSubscription") <=> DomainsOrCommonNameDiffer
           /\ ~DomainsOrCommonNameDiffer
                => /\ \A i \in 1..Len(last.calls) :
                        last.calls[i].api \in {"GetTLSSubscription", "ListTLSDomains"}
                   /\ last.calls[1].api = "GetTLSSubscription"
                   /\ ~Mutated

C2_Witness ==
    /\ Succeeded("Update")
    /\ ~DomainsOrCommonNameDiffer
    /\ last.planned.force_update # last.before.force_update
    /\ ~Called(last, "UpdateTLSSubscription")
    /\ Called(last, "GetTLSSubscription")

Updatable == {"issued", "pending"}

\* C3, as claimed: UpdateTLSSubscription is issued only while the remote
\* subscription is in state issued or pending.
C3_UpdateOnlyWhileRemoteUpdatable ==
    Called(last, "UpdateTLSSubscription") => last.remoteBefore.State \in Updatable

\* C3, amended: UpdateTLSSubscription is issued only when the state field of the
\* stored (last-read) state is issued or pending, whatever the remote
\* subscription has become since; an Update on a stored state of processing or
\* renewing changes none of domains, common_name and configuration_id (such a
\* change is planned as a replacement: Delete, then Create).
C3_UpdateOnlyWhileLastKnownUpdatable ==
    /\ Called(last, "UpdateTLSSubscription") => last.before.state \in Updatable
    /\ (last.op = "Update" /\ last.before.state \notin Updatable)
          => \A key \in {"domains", "common_name", "configuration_id"} :
                last.planned[key] = last.before[key]

C3_Witness ==
    /\ last.op = "Update"
    /\ CalledOk("UpdateTLSSubscription")
    /\ last.before.state = "pending"
    /\ last.remoteBefore.State = "pending"
    /\ Mutated

ReplacementKeys == {"configuration_id", "domains", "common_name"}

\* C4: a plan forces replacement through the three ForceNewIf rules if and only
\* if configuration_id, domains or common_name changes and the state field of
\* the stored state is neither issued nor pending; the keys marked are the
\* changed ones among the three.
C4_ForceNewIffImmutable ==
    last.op = "Plan"
        => LET changed == {key \in ReplacementKeys : last.planned[key] # last.before[key]} IN
           /\ (last.requiresNew # {}) <=> (changed # {} /\ last.before.state \notin Updatable)
           /\ last.requiresNew \subseteq changed
           /\ last.before.state \in Updatable => last.requiresNew = {}
           /\ changed = {} => last.requiresNew = {}

C4_Witness ==
    /\ last.op = "Plan"
    /\ last.before.state = "renewing"
    /\ last.planned.configuration_id # last.before.configuration_id
    /\ last.planned.domains = last.before.domains
    /\ last.requiresNew = {"configuration_id"}

NotFound == \E i \in 1..Len(last.calls) : last.calls[i] = Call("GetTLSSubscription", "notfound")

\* The resource data a handler holds when it reaches Read: the stored state, with
\* the new ID in Create.
DataAtRead ==
    IF last.op = "Create" THEN [last.before EXCEPT !.id = SubID] ELSE last.before

\* C5: when GetTLSSubscription reports not-found, Read (alone, or reached through
\* Create or Update) clears the resource ID, returns exactly one diagnostic, a
\* warning, sets no other field and issues no further remote call.
C5_NotFoundClearsID ==
    NotFound
        => /\ ~last.panic
           /\ last.diags = <<"warning">>
           /\ last.calls[Len(last.calls)] = Call("GetTLSSubscription", "notfound")
           /\ last.data = [DataAtRead EXCEPT !.id = NoID]
           /\ d.id = NoID

C5_Witness ==
    /\ last.op = "Create"
    /\ last.calls = <<Call("CreateTLSSubscription", "ok"), Call("GetTLSSubscription", "notfound")>>
    /\ d.id = NoID

FailedCall(i) == last.calls[i].outcome = "error"

\* C6, as claimed: every failed remote call (not-found of the subscription read
\* is not one) makes the operation return a fatal diagnostic and stop.
C6_EveryFailureIsFatal ==
    \A i \in 1..Len(last.calls) :
        FailedCall(i) => (Fatal(last) /\ i = Len(last.calls))

\* C6, amended: a failure of CreateTLSSubscription, GetTLSSubscription,
\* UpdateTLSSubscription or DeleteTLSSubscription makes the operation return a
\* fatal diagnostic and stop; a failure of ListTLSDomains is dropped, and Read
\* completes without a diagnostic, keeping the subscription's own configuration.
C6_FailureIsFatalButListing ==
    \A i \in 1..Len(last.calls) :
        FailedCall(i)
            => IF last.calls[i].api = "ListTLSDomains"
               THEN /\ last.diags = <<>>
                    /\ last.data.configuration_id = remote.Configuration
               ELSE /\ last.diags = <<"error">>
                    /\ i = Len(last.calls)

C6_Witness ==
    /\ last.op = "Delete"
    /\ last.calls = <<Call("DeleteTLSSubscription", "error")>>
    /\ Fatal(last)
    /\ d.id # NoID

\* C7, as claimed: an operation that returns a fatal diagnostic has changed
\* neither the resource data nor the remote subscription.
C7_FatalLeavesNothing ==
    Fatal(last) => (~Wrote /\ ~Mutated)

MutatingCalls == {"CreateTLSSubscription", "UpdateTLSSubscription", "DeleteTLSSubscription"}

\* C7, amended: an operation that returns a fatal diagnostic without a
\* successful CreateTLSSubscription, UpdateTLSSubscription or
\* DeleteTLSSubscription call has changed neither the resource data nor the
\* remote subscription. Nothing is rolled back: a Create whose remote create
\* succeeded and whose read failed keeps the new ID and leaves the subscription
\* created, and an Update whose remote update succeeded and whose read failed
\* leaves the remote subscription updated.
C7_FatalBeforeMutationLeavesNothing ==
    Fatal(last)
        => /\ (\A api \in MutatingCalls : ~CalledOk(api)) => (~Wrote /\ ~Mutated)
           /\ CalledOk("CreateTLSSubscription")
                => /\ last.data.id = SubID
                   /\ remote.exists /\ Mutated
           /\ CalledOk("UpdateTLSSubscription")
                => /\ remote.Domains = last.planned.domains
                   /\ remote.CommonName = last.planned.common_name
                   /\ ~Wrote

C7_Witness ==
    /\ last.op = "Update"
    /\ last.calls = <<Call("UpdateTLSSubscription", "error")>>
    /\ Fatal(last)
    /\ ~Wrote /\ ~Mutated

ListedOk == \E i \in 1..Len(last.calls) : last.calls[i] = Call("ListTLSDomains", "ok")

\* The first domain of the listing that has an activation.
FirstActive(listed) ==
    CHOOSE i \in 1..Len(listed) :
        /\ Len(listed[i].Activations) > 0
        /\ \A j \in 1..(i - 1) : Len(listed[j].Activations) = 0

\* C8, as claimed: after a successful Read whose listing shows a domain with an
\* activation, configuration_id is the configuration of the first activation of
\* the first such domain, wherever the domains without activations stand.
C8_ConfigurationOfEarliestActivation ==
    (Succeeded("Read") /\ ListedOk /\ HasActiveDomains(tlsDomains))
        => d.configuration_id = tlsDomains[FirstActive(tlsDomains)].Activations[1]

\* C9: after a successful Read whose listing failed, is empty or shows no domain
\* with an activation, configuration_id is the subscription's own configuration.
C9_OwnConfigurationWithoutActivation ==
    (Succeeded("Read") /\ (~ListedOk \/ ~HasActiveDomains(tlsDomains)))
        => d.configuration_id = remote.Configuration

C9_Witness ==
    /\ Succeeded("Read")
    /\ ListedOk
    /\ Len(tlsDomains) = 2
    /\ tlsDomains[1] = TLSDomain(FALSE, <<>>)
    /\ tlsDomains[2] = TLSDomain(TRUE, <<>>)
    /\ d.configuration_id = DefaultConfig

\* The challenges of all authorizations of the remote subscription.
RemoteChallenges ==
    UNION {Range(remote.Authorizations[i]) : i \in 1..Len(remote.Authorizations)}

RemoteDNSChallenges == {c \in RemoteChallenges : c.Type = "managed-dns"}

\* C10: after a successful Read, managed_dns_challenges holds exactly the
\* managed-dns challenges of all authorizations, each with the first of its
\* values; managed_http_challenges holds exactly the challenges of every other
\* type, each with all its values; and a Read that got a subscription with a
\* managed-dns challenge without value returns a fatal diagnostic.
C10_ChallengesClassified ==
    /\ Succeeded("Read")
         => /\ d.managed_dns_challenges =
                 {[record_type |-> c.RecordType, record_name |-> c.RecordName,
                   record_value |-> c.Values[1]] : c \in RemoteDNSChallenges}
            /\ d.managed_http_challenges =
                 {[record_type |-> c.RecordType, record_name |-> c.RecordName,
                   record_values |-> Range(c.Values)] :
                     c \in RemoteChallenges \ RemoteDNSChallenges}
    /\ (/\ Returned("Read")
        /\ CalledOk("GetTLSSubscription")
        /\ \E c \in RemoteDNSChallenges : Len(c.Values) = 0)
          => last.diags = <<"error">>

C10_Witness ==
    /\ Succeeded("Read")
    /\ Len(remote.Authorizations) = 2
    /\ \E c \in RemoteDNSChallenges : Len(c.Values) = 2
    /\ \E c \in RemoteChallenges \ RemoteDNSChallenges : Len(c.Values) = 2
    /\ Cardinality(d.managed_dns_challenges) = 2
    /\ Cardinality(d.managed_http_challenges) = 1

\* unicode.IsUpper on the code points of PlanValues: the letters of category Lu.
IsUpper(r) == (65 <= r /\ r <= 90) \/ (192 <= r /\ r <= 214) \/ r = 119808

\* The code points of PlanValues whose lowercase form is another code point:
\* the capitals but U+1D400, and the titlecase letter U+01C5.
HasLowercaseForm(r) == (65 <= r /\ r <= 90) \/ (192 <= r /\ r <= 214) \/ r = 453

ContainsUppercase(s) == \E i \in 1..Len(Runes(s)) : IsUpper(Runes(s)[i])

ContainsCased(s) == \E i \in 1..Len(Runes(s)) : HasLowercaseForm(Runes(s)[i])

\* The plan that has just returned called no API and changed nothing, and the
\* handler that has just returned was given values that pass both validations.
ValidatedBeforeAnyCall ==
    /\ last.op = "Plan" => (last.calls = <<>> /\ d = last.before /\ remote = last.remoteBefore)
    /\ last.op \in {"Create", "Update"} => CustomizeDiff(last.planned) = <<>>

Signed32Abs(crc) ==
    IF crc[1] < 32768 THEN IntValue(FALSE, crc)
    ELSE IF crc = <<32768, 0>> THEN IntValue(FALSE, <<0, 0>>)
    ELSE IntValue(FALSE, TwosComplement(crc))

\* C12 as claimed: every call of String returns the checksum read as a signed
\* integer of 32 bits, negated when negative and 0 when it is the least one.
C12_StringIsSigned32Abs ==
    last.op = "String" =>
        \A i \in 1..Len(last.results) :
            last.results[i] = Signed32Abs(ChecksumIEEE(last.s))

\* C12, amended: every call of String returns a non-negative integer, the same
\* on every call for a string in one build; where int has 32 bits it is the
\* checksum read as a signed integer, negated when negative and 0 when it is
\* the least one; where int has 64 bits it is the checksum itself, unchanged,
\* from 0 to 2^32 - 1.
C12_StringNonNegativePerIntSize ==
    last.op = "String" =>
        \A i \in 1..Len(last.results) :
            /\ ~last.results[i].neg
            /\ last.results[i] = last.results[1]
            /\ last.size = 32 => last.results[i] = Signed32Abs(ChecksumIEEE(last.s))
            /\ last.size = 64 => last.results[i] = IntValue(FALSE, ChecksumIEEE(last.s))

\* "test" hashed twice in each build: 662733300 with 32 bits (the checksum
\* 0xd87f7e0c negated), 3632233996 with 64.
C12_Witness ==
    /\ last.op = "String"
    /\ last.s = <<116, 101, 115, 116>>
    /\ Len(last.results) = 2
    /\ ChecksumIEEE(last.s) = <<55423, 32268>>
    /\ last.size = 32
    /\ last.results[2] = IntValue(FALSE, <<10112, 33268>>)

====
